---- MODULE Spec2Model ----
(***************************************************************************)
(* Model of src/road_network/mod.rs: RoadNetwork::new (the graph builder)  *)
(* and RoadNetwork::reduce_to_largest_connected_component (the reducer).   *)
(*                                                                         *)
(* HashMap<K, V> is a function with a finite DOMAIN, Option<T> is a        *)
(* sequence of length 0 (None) or 1 (Some), Vec<T> is a sequence.  Rust    *)
(* indexes refs from 0, TLA+ from 1: way.refs[i] is refs[i + 1] here.      *)
(***************************************************************************)
EXTENDS Integers, Sequences, FiniteSets, TLC

VARIABLES
    in_points,   \* the point mapping handed to the first RoadNetwork::new
    in_ways,     \* the way list handed to the first RoadNetwork::new
    pc,          \* "new" | "reduce" | "select" | "done" | "panicked"
    caller,      \* who called RoadNetwork::new: "main" or "reduce"
    nodes,       \* RoadNetwork::new: parameter `nodes`
    ways,        \* RoadNetwork::new: parameter `ways`
    edges,       \* RoadNetwork::new: local `edges`
    wi,          \* position of `for way in ways.clone()` (1-based)
    i,           \* loop variable `i` of `for i in 0..way.refs.len() - 1`
    previous_head_node_now_tail,  \* Option<&Node>
    previous_head_node_index,     \* usize
    seg,         \* locals of the last executed loop body: i, tail_id, tail, head_id, head
    graph,       \* `self` of the reducer (the graph returned by new)
    counter,     \* reducer local `counter`
    number_times_node_visted,     \* reducer local: node id -> counter
    lcc_nodes,   \* reducer local `lcc_nodes`
    result,      \* the graph returned by the reducer
    round        \* how many times the reducer has been entered

vars == <<in_points, in_ways, pc, caller, nodes, ways, edges, wi, i,
          previous_head_node_now_tail, previous_head_node_index, seg,
          graph, counter, number_times_node_visted, lcc_nodes, result, round>>

-----------------------------------------------------------------------------
(* Bounds of the explored inputs *)

NumPointsSmall == 2   \* the points 1..NumPointsSmall; id 0 is in no mapping
MaxWaysFree == 1      \* ways per list, free-form reference lists
MaxRefs == 5          \* total number of references over the ways of a list
MaxWaysOverlap == 2   \* ways per list, two references in any direction
NumPointsWide == 5    \* points of the wide inputs (ways <<a, b>> with a <= b)
MaxWaysWide == 4      \* ways per list of the wide inputs
MaxRounds == 2        \* the reducer is applied to its own result once more

\* Coordinates are fixed-point degrees * 10^7; the explored points lie on a
\* grid of 0.01 degree so that the distance arithmetic stays in 32 bits:
\* the divisor 10^14 of lines 78 and 80 is CoordUnit^2 * 10^4.
CoordUnit == 100000

HighwayTags == {"residential", "motorway"}

-----------------------------------------------------------------------------
(* Option and HashMap *)

None == << >>
Some(x) == <<x>>
IsSome(o) == Len(o) = 1

EmptyMap == << >>

\* HashMap::get
Get(m, k) == IF k \in DOMAIN m THEN Some(m[k]) ELSE None

\* HashMap::insert
Insert(m, k, v) == [x \in (DOMAIN m) \cup {k} |-> IF x = k THEN v ELSE m[x]]

\* the map without the keys of S (HashMap::remove for each key of S)
RemoveAll(m, S) == [x \in (DOMAIN m) \ S |-> m[x]]

-----------------------------------------------------------------------------
(* Classification table *)

speed_calc(highway) ==
    CASE highway = "motorway" -> Some(110)
      [] highway = "trunk" -> Some(110)
      [] highway = "primary" -> Some(70)
      [] highway = "secondary" -> Some(60)
      [] highway = "tertiary" -> Some(50)
      [] highway = "motorway_link" -> Some(50)
      [] highway = "trunk_link" -> Some(50)
      [] highway = "primary_link" -> Some(50)
      [] highway = "secondary_link" -> Some(50)
      [] highway = "road" -> Some(40)
      [] highway = "unclassified" -> Some(40)
      [] highway = "residential" -> Some(30)
      [] highway = "unsurfaced" -> Some(30)
      [] highway = "living_street" -> Some(10)
      [] highway = "service" -> Some(5)
      [] OTHER -> None

-----------------------------------------------------------------------------
(* Segment cost, lines 77-82 *)

\* 111229^2 = SqLatHi * 10^4 + SqLatLo and 71695^2 = SqLonHi * 10^4 + SqLonLo
SqLatHi == 1237189
SqLatLo == 441
SqLonHi == 514017
SqLonLo == 3025

RECURSIVE ISqrtBetween(_, _, _)
\* the largest r in lo..hi with r * r <= x  (lo * lo <= x < (hi + 1)^2)
ISqrtBetween(x, lo, hi) ==
    IF lo = hi THEN lo
    ELSE LET mid == (lo + hi + 1) \div 2
         IN  IF mid * mid <= x THEN ISqrtBetween(x, mid, hi)
             ELSE ISqrtBetween(x, lo, mid - 1)

\* (a + b).sqrt() as u64: the floor of the square root of a + b, where
\* a = (dlat * 111229)^2 / 10^14 and b = (dlon * 71695)^2 / 10^14.  With
\* dlat = k * CoordUnit and dlon = j * CoordUnit, a + b is
\* (k^2 * 111229^2 + j^2 * 71695^2) / 10^4, and floor(sqrt(x)) =
\* floor(sqrt(floor(x))).
segment_length(tail, head) ==
    LET k == (head.lat - tail.lat) \div CoordUnit
        j == (head.lon - tail.lon) \div CoordUnit
        whole == k * k * SqLatHi + j * j * SqLonHi
                   + (k * k * SqLatLo + j * j * SqLonLo) \div 10000
    IN  ISqrtBetween(whole, 0, 46340)

\* ((way.speed as f64) * 5.0 / 18.0) as u64
speed_metres_per_second(speed) == (speed * 5) \div 18

\* line 82: (c as u64) / ((way.speed as f64) * 5.0 / 18.0) as u64
segment_cost(tail, head, speed) ==
    segment_length(tail, head) \div speed_metres_per_second(speed)

-----------------------------------------------------------------------------
(* RoadNetwork::new, lines 57-124 *)

\* resolve_tail with the cached head used whatever its index
resolve_tail_ignoring_index(ns, tail_id, prev, prev_index, idx) ==
    IF IsSome(prev) THEN Some(prev[1]) ELSE Get(ns, tail_id)

\* lines 65-71: the tail of segment idx, through the cached previous head
resolve_tail(ns, tail_id, prev, prev_index, idx) ==
    IF IsSome(prev)
    THEN IF prev_index = idx THEN Some(prev[1]) ELSE Get(ns, tail_id)
    ELSE Get(ns, tail_id)

\* entry_insert with .or_insert(HashMap::new()): a new outer key gets no entry
entry_insert_empty_default(e, outer, k, v) ==
    IF outer \in DOMAIN e
    THEN Insert(e, outer, Insert(e[outer], k, v))
    ELSE Insert(e, outer, EmptyMap)

\* edges.entry(outer).and_modify(|inner| inner.insert(k, v)).or_insert({k: v})
entry_insert(e, outer, k, v) ==
    IF outer \in DOMAIN e
    THEN Insert(e, outer, Insert(e[outer], k, v))
    ELSE Insert(e, outer, Insert(EmptyMap, k, v))

\* insert_segment without the head -> tail direction
insert_segment_one_direction(e, tail_id, head_id, head, cost) ==
    entry_insert(e, tail_id, head_id, <<cost, FALSE>>)

\* lines 83-103: both directions of one segment
insert_segment(e, tail_id, head_id, head, cost) ==
    LET flag == FALSE
        e1 == entry_insert(e, tail_id, head_id, <<cost, flag>>)
    IN  entry_insert(e1, head.id, tail_id, <<cost, flag>>)

\* prune_nodes without the removal
prune_nodes_keep_all(ns, e) == ns

\* lines 109-116: drop every point that is no key of edges
prune_nodes(ns, e) ==
    LET node_to_remove == {n \in DOMAIN ns : n \notin DOMAIN e}
    IN  RemoveAll(ns, node_to_remove)

\* lines 118-123; raw_nodes is a Vec in HashMap iteration order, kept here
\* as the set of its elements
make_network(ns, e, ws) ==
    [raw_ways |-> ws, edges |-> e, raw_nodes |-> DOMAIN ns, nodes |-> ns]

NoGraph == make_network(EmptyMap, EmptyMap, << >>)
NoSeg == [i |-> -1, tail_id |-> -1, tail |-> None, head_id |-> -1, head |-> None]

\* the loop variables after the body of segment i of a way with n references
Advance(n) ==
    IF i + 1 < n - 1
    THEN /\ i' = i + 1
         /\ wi' = wi
    ELSE /\ i' = 0
         /\ wi' = wi + 1

reducer_vars == <<graph, counter, number_times_node_visted, lcc_nodes, result, round>>
input_vars == <<in_points, in_ways>>

\* line 63 with way.refs.len() = 0: `0..way.refs.len() - 1` underflows usize.
\* A debug build panics in the subtraction; a release build wraps to
\* usize::MAX and panics in way.refs[0] (index out of bounds).
NewRangeUnderflow ==
    /\ pc = "new"
    /\ wi <= Len(ways)
    /\ Len(ways[wi].refs) = 0
    /\ pc' = "panicked"
    /\ UNCHANGED <<input_vars, caller, nodes, ways, edges, wi, i,
                   previous_head_node_now_tail, previous_head_node_index, seg,
                   reducer_vars>>

\* lines 60-63 with way.refs.len() = 1: the range 0..0 is empty
NewNoSegment ==
    /\ pc = "new"
    /\ wi <= Len(ways)
    /\ Len(ways[wi].refs) = 1
    /\ wi' = wi + 1
    /\ i' = 0
    /\ previous_head_node_now_tail' = None
    /\ previous_head_node_index' = 0
    /\ UNCHANGED <<input_vars, pc, caller, nodes, ways, edges, seg, reducer_vars>>

\* lines 64-106, both endpoints resolved
NewSegmentInsert ==
    /\ pc = "new"
    /\ wi <= Len(ways)
    /\ Len(ways[wi].refs) >= 2
    /\ LET way == ways[wi]
           tail_id == way.refs[i + 1]
           tail == resolve_tail(nodes, tail_id, previous_head_node_now_tail,
                                previous_head_node_index, i)
           head_id == way.refs[i + 2]
           head == Get(nodes, head_id)
       IN  /\ IsSome(tail) /\ IsSome(head)
           /\ edges' = insert_segment(edges, tail_id, head_id, head[1],
                                      segment_cost(tail[1], head[1], way.speed))
           /\ seg' = [i |-> i, tail_id |-> tail_id, tail |-> tail,
                      head_id |-> head_id, head |-> head]
           /\ Advance(Len(way.refs))
           /\ IF i + 1 < Len(way.refs) - 1
              THEN /\ previous_head_node_now_tail' = head
                   /\ previous_head_node_index' = i + 1
              ELSE /\ previous_head_node_now_tail' = None
                   /\ previous_head_node_index' = 0
    /\ UNCHANGED <<input_vars, pc, caller, nodes, ways, reducer_vars>>

\* lines 64-75, an endpoint is absent: nothing is added
NewSegmentSkip ==
    /\ pc = "new"
    /\ wi <= Len(ways)
    /\ Len(ways[wi].refs) >= 2
    /\ LET way == ways[wi]
           tail_id == way.refs[i + 1]
           tail == resolve_tail(nodes, tail_id, previous_head_node_now_tail,
                                previous_head_node_index, i)
           head_id == way.refs[i + 2]
           head == Get(nodes, head_id)
       IN  /\ ~(IsSome(tail) /\ IsSome(head))
           /\ seg' = [i |-> i, tail_id |-> tail_id, tail |-> tail,
                      head_id |-> head_id, head |-> head]
           /\ Advance(Len(way.refs))
           /\ IF i + 1 < Len(way.refs) - 1
              THEN UNCHANGED <<previous_head_node_now_tail, previous_head_node_index>>
              ELSE /\ previous_head_node_now_tail' = None
                   /\ previous_head_node_index' = 0
    /\ UNCHANGED <<input_vars, pc, caller, nodes, ways, edges, reducer_vars>>

\* lines 109-123: prune and return, to main or to the reducer (line 206)
NewReturn ==
    /\ pc = "new"
    /\ wi > Len(ways)
    /\ LET pruned == prune_nodes(nodes, edges)
           network == make_network(pruned, edges, ways)
       IN  /\ nodes' = pruned
           /\ IF caller = "main"
              THEN /\ graph' = network
                   /\ pc' = "reduce"
                   /\ UNCHANGED result
              ELSE /\ result' = network
                   /\ pc' = "done"
                   /\ UNCHANGED graph
    /\ UNCHANGED <<input_vars, caller, ways, edges, wi, i,
                   previous_head_node_now_tail, previous_head_node_index, seg,
                   counter, number_times_node_visted, lcc_nodes, round>>

-----------------------------------------------------------------------------
(* The traversal oracle RoadDijkstra (crate::road_dijkstras) *)

\* get_unvisted_node_id: the nodes it may return; None when the set is empty
unvisited_node_ids(g, visited) == (DOMAIN g.nodes) \ (DOMAIN visited)

RECURSIVE ReachFrom(_, _)
ReachFrom(e, S) ==
    LET T == S \cup UNION {DOMAIN e[x] : x \in S \cap DOMAIN e}
    IN  IF T = S THEN S ELSE ReachFrom(e, T)

\* dijkstra(source, -1, &None, false) followed by visited_nodes.keys():
\* every node reached from source over the edges of the graph
dijkstra_visited_nodes(g, source) == ReachFrom(g.edges, {source})

-----------------------------------------------------------------------------
(* reduce_to_largest_connected_component, lines 164-207 *)

\* lines 177-179: number_times_node_visted.insert(*node, counter) for each
record_visit(visited, reached, c) ==
    [n \in (DOMAIN visited) \cup reached |->
        IF n \in reached THEN c ELSE visited[n]]

\* early_termination with >= for >
early_termination_at_half(visited, g) ==
    Cardinality(DOMAIN visited) >= Cardinality(DOMAIN g.nodes) \div 2

\* line 180
early_termination(visited, g) ==
    Cardinality(DOMAIN visited) > Cardinality(DOMAIN g.nodes) \div 2

\* chunk when the list is chunked by node id: a chunk is a single node
chunk_first_only(visited, c) ==
    {n \in DOMAIN visited :
        /\ visited[n] = c
        /\ \A m \in DOMAIN visited : visited[m] = c => n <= m}

\* one chunk of lines 186-189: the ids recorded with counter c
chunk(visited, c) == {n \in DOMAIN visited : visited[n] = c}

RECURSIVE largest_from_or_equal(_, _, _, _, _)
\* largest_from with >= for >: the last of the largest chunks wins
largest_from_or_equal(visited, c, last, largest_node_set, prev_set_size) ==
    IF c > last THEN largest_node_set
    ELSE LET node_set == chunk(visited, c)
         IN  IF Cardinality(node_set) >= prev_set_size
             THEN largest_from_or_equal(visited, c + 1, last, node_set,
                                        Cardinality(node_set))
             ELSE largest_from_or_equal(visited, c + 1, last, largest_node_set,
                                        prev_set_size)

RECURSIVE largest_from(_, _, _, _, _)
\* lines 194-199 from chunk c on: chunks come in ascending counter order
largest_from(visited, c, last, largest_node_set, prev_set_size) ==
    IF c > last THEN largest_node_set
    ELSE LET node_set == chunk(visited, c)
         IN  IF Cardinality(node_set) > prev_set_size
             THEN largest_from(visited, c + 1, last, node_set, Cardinality(node_set))
             ELSE largest_from(visited, c + 1, last, largest_node_set, prev_set_size)

\* largest_node_set_of without the size comparison: the last chunk
largest_node_set_last_chunk(visited, last) == chunk(visited, last)

\* lines 184-199
largest_node_set_of(visited, last) == largest_from(visited, 1, last, {}, 0)

\* lines 171-183: one iteration of the while loop
ReduceIterate ==
    /\ pc = "reduce"
    /\ \E source_id \in unvisited_node_ids(graph, number_times_node_visted) :
          LET visited == record_visit(number_times_node_visted,
                                      dijkstra_visited_nodes(graph, source_id),
                                      counter + 1)
          IN  /\ counter' = counter + 1
              /\ number_times_node_visted' = visited
              /\ pc' = IF early_termination(visited, graph) THEN "select" ELSE "reduce"
    /\ UNCHANGED <<input_vars, caller, nodes, ways, edges, wi, i,
                   previous_head_node_now_tail, previous_head_node_index, seg,
                   graph, lcc_nodes, result, round>>

\* line 171: get_unvisted_node_id returns None
ReduceExhausted ==
    /\ pc = "reduce"
    /\ unvisited_node_ids(graph, number_times_node_visted) = {}
    /\ pc' = "select"
    /\ UNCHANGED <<input_vars, caller, nodes, ways, edges, wi, i,
                   previous_head_node_now_tail, previous_head_node_index, seg,
                   reducer_vars>>

\* lines 184-206: select the largest chunk and call RoadNetwork::new;
\* self.nodes.get(id).unwrap() panics on an id that is no node of the graph
ReduceSelect ==
    /\ pc = "select"
    /\ LET largest_node_set == largest_node_set_of(number_times_node_visted, counter)
       IN  IF largest_node_set \subseteq DOMAIN graph.nodes
           THEN /\ lcc_nodes' = [id \in largest_node_set |-> graph.nodes[id]]
                /\ nodes' = lcc_nodes'
                /\ ways' = graph.raw_ways
                /\ edges' = EmptyMap
                /\ wi' = 1
                /\ i' = 0
                /\ previous_head_node_now_tail' = None
                /\ previous_head_node_index' = 0
                /\ seg' = NoSeg
                /\ caller' = "reduce"
                /\ pc' = "new"
           ELSE /\ pc' = "panicked"
                /\ UNCHANGED <<lcc_nodes, nodes, ways, edges, wi, i,
                               previous_head_node_now_tail,
                               previous_head_node_index, seg, caller>>
    /\ UNCHANGED <<input_vars, graph, counter, number_times_node_visted, result, round>>

\* lines 164-169 entered with the result of a previous reduction as self
ReduceAgain ==
    /\ pc = "done"
    /\ round < MaxRounds
    /\ round' = round + 1
    /\ graph' = result
    /\ counter' = 0
    /\ number_times_node_visted' = EmptyMap
    /\ pc' = "reduce"
    /\ UNCHANGED <<input_vars, caller, nodes, ways, edges, wi, i,
                   previous_head_node_now_tail, previous_head_node_index, seg,
                   lcc_nodes, result>>

-----------------------------------------------------------------------------
(* Inputs *)

\* a point of the 0.01 degree grid; point 1 is (0, 0), point 2 is (100000, 0)
PointOf(id) == [id |-> id,
                lat |-> ((id - 1) % 3) * CoordUnit,
                lon |-> ((id - 1) \div 2) * CoordUnit]

\* read_from_osm_file, lines 136-143: the key of a point is its id
PointMap(n) == [id \in 1..n |-> PointOf(id)]

\* read_from_osm_file, lines 146-154: a way carries the speed of its tag
WayOf(id, tag, refs) == [id |-> id, speed |-> speed_calc(tag)[1], refs |-> refs]

RECURSIVE SumTo(_, _)
SumTo(lens, k) == IF k = 0 THEN 0 ELSE lens[k] + SumTo(lens, k - 1)

\* free-form reference lists over the ids 0..NumPointsSmall
InitFreeForm ==
    /\ in_points = PointMap(NumPointsSmall)
    /\ \E k \in 0..MaxWaysFree :
       \E lens \in [1..k -> 0..MaxRefs] :
          /\ SumTo(lens, k) <= MaxRefs
          /\ \E flat \in [1..SumTo(lens, k) -> 0..NumPointsSmall] :
             \E tags \in [1..k -> HighwayTags] :
                in_ways = [w \in 1..k |->
                            WayOf(w, tags[w],
                                  [r \in 1..lens[w] |-> flat[SumTo(lens, w - 1) + r]])]

\* two-reference ways between points, in any direction and of any speed,
\* that may repeat each other
InitOverlap ==
    /\ in_points = PointMap(NumPointsSmall)
    /\ \E k \in 0..MaxWaysOverlap :
       \E ends \in [1..k -> (1..NumPointsSmall) \X (1..NumPointsSmall)] :
       \E tags \in [1..k -> HighwayTags] :
          in_ways = [w \in 1..k |-> WayOf(w, tags[w], ends[w])]

\* the two-reference ways <<a, b>> with a <= b, numbered a * n + b
PairCodes(n) == {p \in 0..(n * n - 1) : p \div n <= p % n}
PairRefs(p, n) == <<(p \div n) + 1, (p % n) + 1>>

\* up to MaxWaysWide distinct two-reference ways over 1..NumPointsWide
InitWide ==
    /\ in_points = PointMap(NumPointsWide)
    /\ \E k \in 0..MaxWaysWide :
       \E codes \in [1..k -> PairCodes(NumPointsWide)] :
          /\ \A w \in 1..(k - 1) : codes[w] < codes[w + 1]
          /\ in_ways = [w \in 1..k |->
                          WayOf(w, "residential", PairRefs(codes[w], NumPointsWide))]

Init ==
    /\ InitFreeForm \/ InitOverlap \/ InitWide
    /\ pc = "new"
    /\ caller = "main"
    /\ nodes = in_points
    /\ ways = in_ways
    /\ edges = EmptyMap
    /\ wi = 1
    /\ i = 0
    /\ previous_head_node_now_tail = None
    /\ previous_head_node_index = 0
    /\ seg = NoSeg
    /\ graph = NoGraph
    /\ counter = 0
    /\ number_times_node_visted = EmptyMap
    /\ lcc_nodes = EmptyMap
    /\ result = NoGraph
    /\ round = 1

Next ==
    \/ NewRangeUnderflow
    \/ NewNoSegment
    \/ NewSegmentInsert
    \/ NewSegmentSkip
    \/ NewReturn
    \/ ReduceIterate
    \/ ReduceExhausted
    \/ ReduceSelect
    \/ ReduceAgain

Spec == Init /\ [][Next]_vars

-----------------------------------------------------------------------------
(* Vocabulary of the properties *)

HasEdge(g, x, y) == x \in DOMAIN g.edges /\ y \in DOMAIN g.edges[x]

GraphIds(g) ==
    (DOMAIN g.nodes) \cup (DOMAIN g.edges)
        \cup UNION {DOMAIN g.edges[x] : x \in DOMAIN g.edges}

RECURSIVE ConnectedTo(_, _)
\* the ids joined to S by edges taken in either direction
ConnectedTo(g, S) ==
    LET T == S \cup UNION {DOMAIN g.edges[x] : x \in S \cap DOMAIN g.edges}
               \cup {y \in DOMAIN g.edges : (DOMAIN g.edges[y]) \cap S # {}}
    IN  IF T = S THEN S ELSE ConnectedTo(g, T)

ComponentOf(g, x) == ConnectedTo(g, {x})
Components(g) == {ComponentOf(g, x) : x \in DOMAIN g.nodes}

\* way w of ws has x and y as consecutive references, both keys of pts
Consecutive(ws, pts, x, y) ==
    /\ x \in DOMAIN pts
    /\ y \in DOMAIN pts
    /\ \E w \in 1..Len(ws) : \E k \in 1..(Len(ws[w].refs) - 1) :
          \/ ws[w].refs[k] = x /\ ws[w].refs[k + 1] = y
          \/ ws[w].refs[k] = y /\ ws[w].refs[k + 1] = x

Symmetric(g) ==
    \A t \in DOMAIN g.edges : \A h \in DOMAIN g.edges[t] :
        /\ HasEdge(g, h, t)
        /\ g.edges[h][t][1] = g.edges[t][h][1]

NodeEdgeConsistent(g) ==
    /\ \A t \in DOMAIN g.edges :
          /\ t \in DOMAIN g.nodes
          /\ \A h \in DOMAIN g.edges[t] : h \in DOMAIN g.nodes
    /\ \A n \in DOMAIN g.nodes : n \in DOMAIN g.edges /\ DOMAIN g.edges[n] # {}

\* no point of pts that no resolvable segment of ws references is in g
UnreferencedPruned(g, pts, ws) ==
    \A p \in DOMAIN pts :
        (~ \E q \in DOMAIN pts : Consecutive(ws, pts, p, q))
            => p \notin DOMAIN g.nodes /\ p \notin g.raw_nodes

FirstGraphReturned == pc \in {"reduce", "select"} /\ round = 1
ReducerReturned == pc = "done"

-----------------------------------------------------------------------------
(* C2 *)

\* C2: in every graph returned by RoadNetwork::new and in every graph
\* returned by the reducer, an edge tail -> head comes with an edge
\* head -> tail of the same cost.
C2_Symmetry == Symmetric(graph) /\ Symmetric(result)

\* a segment given by two ways in opposite directions with different speeds
\* has been built into the graph and survives the reduction
C2_Witness ==
    /\ ReducerReturned
    /\ \E w \in 1..Len(in_ways) : \E v \in 1..Len(in_ways) :
          /\ w < v
          /\ Len(in_ways[w].refs) = 2
          /\ in_ways[v].refs = <<in_ways[w].refs[2], in_ways[w].refs[1]>>
          /\ in_ways[w].refs[1] # in_ways[w].refs[2]
          /\ in_ways[w].speed # in_ways[v].speed
          /\ HasEdge(graph, in_ways[w].refs[1], in_ways[w].refs[2])
          /\ HasEdge(result, in_ways[w].refs[1], in_ways[w].refs[2])

-----------------------------------------------------------------------------
(* C3 *)

\* C3: in every returned graph every key and inner key of edges is a key of
\* nodes, every key of nodes is a key of edges with at least one adjacency,
\* and a point of the input mapping that no resolvable segment references is
\* neither in nodes nor in raw_nodes.
C3_NodeEdgeConsistency ==
    /\ NodeEdgeConsistent(graph)
    /\ NodeEdgeConsistent(result)
    /\ graph.raw_nodes = DOMAIN graph.nodes
    /\ FirstGraphReturned => UnreferencedPruned(graph, in_points, in_ways)
    /\ ReducerReturned => UnreferencedPruned(result, lcc_nodes, ways)

\* a graph with edges was returned and a point of the mapping is not in it
C3_Witness ==
    /\ FirstGraphReturned
    /\ DOMAIN graph.edges # {}
    /\ \E p \in DOMAIN in_points : p \notin DOMAIN graph.nodes

-----------------------------------------------------------------------------
(* C4 *)

\* C4: points A(1, 0, 0) and B(2, 100000, 0) and the single way [1, 2] at
\* 30 km/h yield edges 1 -> 2 and 2 -> 1 of cost 132..134 and flag false.
C4_CostScenario ==
    (/\ FirstGraphReturned
     /\ in_points[1] = [id |-> 1, lat |-> 0, lon |-> 0]
     /\ in_points[2] = [id |-> 2, lat |-> 100000, lon |-> 0]
     /\ DOMAIN in_points = {1, 2}
     /\ in_ways = <<[id |-> 1, speed |-> 30, refs |-> <<1, 2>>]>>)
    => /\ HasEdge(graph, 1, 2) /\ HasEdge(graph, 2, 1)
       /\ graph.edges[1][2][1] \in 132..134
       /\ graph.edges[2][1][1] \in 132..134
       /\ graph.edges[1][2][2] = FALSE
       /\ graph.edges[2][1][2] = FALSE

-----------------------------------------------------------------------------
(* C7 *)

EdgesAreResolvedSegments(g, pts, ws) ==
    \A x \in {0} \cup GraphIds(g) \cup DOMAIN in_points :
    \A y \in {0} \cup GraphIds(g) \cup DOMAIN in_points :
        HasEdge(g, x, y) <=> Consecutive(ws, pts, x, y)

\* C7: after RoadNetwork::new an adjacency between x and y exists exactly
\* when some way has x and y as consecutive references that are both keys
\* of the point mapping, and the tail the loop body resolved (through the
\* cached previous head or not) is the direct lookup of refs[i].
C7_SegmentsSkippedIndividually ==
    /\ FirstGraphReturned => EdgesAreResolvedSegments(graph, in_points, in_ways)
    /\ ReducerReturned => EdgesAreResolvedSegments(result, lcc_nodes, ways)
    /\ (pc = "new" /\ seg.i >= 0) => seg.tail = Get(nodes, seg.tail_id)

\* a way of five references whose third is absent: a segment is added, the
\* next is skipped on its head (cached tail), the next on its tail (stale
\* cache, direct lookup), and the last one is added
C7_Witness ==
    /\ FirstGraphReturned
    /\ \E w \in 1..Len(in_ways) :
          LET refs == in_ways[w].refs
          IN  /\ Len(refs) = 5
              /\ refs[3] \notin DOMAIN in_points
              /\ HasEdge(graph, refs[1], refs[2])
              /\ HasEdge(graph, refs[4], refs[5])
              /\ ~ HasEdge(graph, refs[2], refs[3])
              /\ ~ HasEdge(graph, refs[2], refs[4])

-----------------------------------------------------------------------------
(* C10 *)

\* C10: RoadNetwork::new completes without failure for every way list,
\* including a way of zero or one references.
C10_BuilderTotal == pc # "panicked"

-----------------------------------------------------------------------------
(* C1, C5, C6, C8, C9: the reducer *)

Visited == DOMAIN number_times_node_visted
Discovered(g) == {C \in Components(g) : C \subseteq Visited}
Size(S) == Cardinality(S)

MajorityComponents(g) ==
    {C \in Components(g) : 2 * Size(C) > Size(DOMAIN g.nodes)}

\* C5: when a component holds more than half of the nodes, the loop does
\* not stop before that component is recorded, and the reducer returns
\* exactly that component.
C5_MajorityComponentReturned ==
    (pc = "select" \/ ReducerReturned)
    => \A C \in MajorityComponents(graph) :
          /\ pc = "select" => C \subseteq Visited
          /\ ReducerReturned => DOMAIN result.nodes = C

\* a majority component that was discovered after another component
C5_Witness ==
    /\ ReducerReturned
    /\ round = 1
    /\ MajorityComponents(graph) # {}
    /\ counter >= 2
    /\ Size(DOMAIN result.nodes) >= 3

\* C6: reducing a graph that is a single connected component returns the
\* same nodes, edges and raw_ways, and reducing the result of a reduction
\* returns that result.
C6_Idempotence ==
    /\ (ReducerReturned /\ Size(Components(graph)) = 1)
          => /\ result.nodes = graph.nodes
             /\ result.edges = graph.edges
             /\ result.raw_ways = graph.raw_ways
    /\ (ReducerReturned /\ round = 2) => result = graph

\* the second reduction of a graph that lost a component in the first
C6_Witness ==
    /\ ReducerReturned
    /\ round = 2
    /\ Size(DOMAIN result.nodes) >= 2
    /\ \E p \in DOMAIN in_points :
          /\ p \notin DOMAIN result.nodes
          /\ \E q \in DOMAIN in_points : Consecutive(in_ways, in_points, p, q)

Selected == caller = "reduce" /\ pc \in {"new", "done"}
ChunkOf(c) == chunk(number_times_node_visted, c)

\* C8: of the recorded groups of maximum size, the one with the lowest
\* counter is the one selected.
C8_FirstLargestGroupWins ==
    (Selected /\ Visited # {})
    => \E c \in 1..counter :
          /\ DOMAIN lcc_nodes = ChunkOf(c)
          /\ \A d \in 1..counter :
                \/ Size(ChunkOf(d)) < Size(ChunkOf(c))
                \/ Size(ChunkOf(d)) = Size(ChunkOf(c)) /\ c <= d

\* two groups of the maximum size were recorded
C8_Witness ==
    /\ Selected
    /\ \E c \in 1..counter : \E d \in 1..counter :
          /\ c < d
          /\ Size(ChunkOf(c)) = Size(ChunkOf(d))
          /\ Size(ChunkOf(c)) >= 2
          /\ \A k \in 1..counter : Size(ChunkOf(k)) <= Size(ChunkOf(c))

\* holds of the states between two iterations and after the last one
PartitionOfComponents ==
    pc \in {"reduce", "select"}
    => \A x \in Visited :
          LET Cx == ComponentOf(graph, x)
          IN  /\ Cx \subseteq Visited
              /\ \A y \in Visited :
                    number_times_node_visted[x] = number_times_node_visted[y]
                        <=> y \in Cx

CountersKeptAndGrowing ==
    (pc = "reduce" /\ counter' = counter + 1)
    => /\ \A x \in Visited :
             /\ x \in DOMAIN number_times_node_visted'
             /\ number_times_node_visted'[x] = number_times_node_visted[x]
       /\ Size(DOMAIN number_times_node_visted') > Size(Visited)

\* C9: after every iteration each component is recorded entirely or not at
\* all, two recorded nodes have the same counter exactly when they are in
\* the same component, no recorded counter is overwritten by a later
\* iteration, and every iteration records at least one more node.
C9_PartitionInvariant ==
    []PartitionOfComponents /\ [][CountersKeptAndGrowing]_vars

\* three iterations have recorded three components, one of several nodes
C9_Witness ==
    /\ pc = "select"
    /\ counter >= 3
    /\ Size(Visited) >= 4
    /\ \E x \in Visited : Size(ComponentOf(graph, x)) >= 2

====
